---- MODULE Spec2Model ----
(***************************************************************************)
(* Model of agentic_chat: the message-history resolver, the tool catalog   *)
(* formatter, the tool proxies with the process-wide tool-call log, and    *)
(* the follow-up decision of CopilotKitFlow.                               *)
(*                                                                         *)
(* Strings whose contents matter (tool names, model responses, the proxy   *)
(* acknowledgement) are sequences of tokens.  A token is either one        *)
(* character or one fixed literal of the source ("Tool ", " called         *)
(* successfully with parameters: ").  The literal "Tool " begins with a    *)
(* letter that occurs in no other token, so a Python substring test for    *)
(* "Tool <name>" succeeds exactly when the token sequence of the pattern   *)
(* occurs contiguously in the token sequence of the response.              *)
(***************************************************************************)
EXTENDS Integers, Sequences, FiniteSets, TLC

\* ------------------------------------------------------------------ bounds
MaxStateLen == 3
MaxRawLen == 2
MaxMessages == 3
MaxTools == 3
MaxProxies == 2
MaxCalls == 2
MaxClock == 1
MaxLogLen == 2
MaxResponseLen == 3

\* ------------------------------------------------------- python primitives
\* Python's None, where a string may also stand.
None == "<None>"

\* Truthiness of an Optional[str]: None and "" are falsy.
Truthy(s) == s \notin {None, ""}

Min(a, b) == IF a < b THEN a ELSE b
Max(a, b) == IF a > b THEN a ELSE b

\* Python's s[i:] for an integer i of either sign.
PySliceFrom(s, i) ==
  LET start == IF i < 0 THEN Max(Len(s) + i, 0) ELSE Min(i, Len(s))
  IN SubSeq(s, start + 1, Len(s))

\* ----------------------------------------------------------------- messages
StateRoles == {"system", "user", "assistant"}
RawRoles == {"system", "user", "assistant", "tool", None}
StateContents == {"p", "q"}
RawContents == {"r"}
SystemPrompts == {None, "", "P"}

Message(role, content) == [role |-> role, content |-> content]

StateMessageSet == {Message(r, c) : r \in StateRoles, c \in StateContents}
RawMessageSet == {Message(r, c) : r \in RawRoles, c \in RawContents}

SeqsUpTo(S, n) == UNION {[1..k -> S] : k \in 0..n}

\* self._raw_input: the attribute may be missing, hold a non-dict, or hold a
\* dict with or without the key "messages".
NoRawInput == [kind |-> "absent", has_messages |-> FALSE, messages |-> <<>>]
NonDictRawInput == [kind |-> "nondict", has_messages |-> FALSE, messages |-> <<>>]
DictRawInput(has, msgs) == [kind |-> "dict", has_messages |-> has, messages |-> msgs]

RawInputSet(n) ==
  {NoRawInput, NonDictRawInput, DictRawInput(FALSE, <<>>)}
    \cup {DictRawInput(TRUE, ms) : ms \in SeqsUpTo(RawMessageSet, n)}

\* ------------------------------------------------------ get_message_history
\* messages = [] / [{"role": "system", "content": system_prompt}]
SystemPromptMessages(system_prompt) ==
  IF Truthy(system_prompt) THEN <<Message("system", system_prompt)>> ELSE <<>>

\* hasattr(self, "_raw_input") and isinstance(dict) and "messages" in it
HasRawMessages(raw) == raw.kind = "dict" /\ raw.has_messages

IsUsableRole(msg) == msg.role \in {"user", "assistant", "system"}

\* raw_messages = [msg for msg in ... if msg.get("role") in [...]]
raw_messages(raw) == SelectSeq(raw.messages, IsUsableRole)

\* MergeHistory with the local state always appended, never replacing.
MergeHistory_AlwaysAppend(system_prompt, state_msgs, raw) ==
  LET messages == SystemPromptMessages(system_prompt)
      rm == IF HasRawMessages(raw) THEN raw_messages(raw) ELSE <<>>
  IN IF HasRawMessages(raw) /\ rm # <<>>
     THEN IF messages # <<>> /\ messages[1].role = "system" /\ rm[1].role # "system"
          THEN [early |-> TRUE, messages |-> messages \o rm]
          ELSE [early |-> TRUE, messages |-> rm]
     ELSE [early |-> FALSE, messages |-> messages \o state_msgs]

\* The function up to the truncation: early = TRUE when it returned from the
\* raw-input branch, messages = the list returned there or held at line 209.
MergeHistory(system_prompt, state_msgs, raw) ==
  LET messages == SystemPromptMessages(system_prompt)
      rm == IF HasRawMessages(raw) THEN raw_messages(raw) ELSE <<>>
  IN IF HasRawMessages(raw) /\ rm # <<>>
     THEN IF messages # <<>> /\ messages[1].role = "system" /\ rm[1].role # "system"
          THEN [early |-> TRUE, messages |-> messages \o rm]
          ELSE [early |-> TRUE, messages |-> rm]
     ELSE IF state_msgs # <<>>
          THEN IF messages # <<>> /\ state_msgs[1].role = "system"
               THEN [early |-> FALSE, messages |-> state_msgs]
               ELSE [early |-> FALSE, messages |-> messages \o state_msgs]
          ELSE [early |-> FALSE, messages |-> messages]

\* if len(messages) > max_messages: ...
Truncate(messages, max_messages) ==
  IF Len(messages) > max_messages
  THEN IF messages[1].role = "system"
       THEN <<messages[1]>> \o PySliceFrom(messages, -(max_messages - 1))
       ELSE PySliceFrom(messages, -max_messages)
  ELSE messages

get_message_history(system_prompt, max_messages, state_msgs, raw) ==
  LET merged == MergeHistory(system_prompt, state_msgs, raw)
  IN IF merged.early THEN merged.messages
     ELSE Truncate(merged.messages, max_messages)

\* ------------------------------------------------------ tool descriptors
\* A tool name is a sequence of characters.  One name is a prefix of the other.
ToolNames == {<<"a">>, <<"a", "b">>}

Fields == {"name", "description", "parameters"}

FieldValues(f) ==
  IF f = "name" THEN ToolNames
  ELSE IF f = "description" THEN {<<"d">>} ELSE {<<"s">>}

\* A descriptor is a dict holding any subset of the three keys.
ToolDescriptorSet ==
  UNION {{t \in [D -> ToolNames \cup {<<"d">>, <<"s">>}] :
            \A f \in D : t[f] \in FieldValues(f)} : D \in SUBSET Fields}

ToolDescriptor(name) ==
  [f \in Fields |-> IF f = "name" THEN name
                    ELSE IF f = "description" THEN <<"d">> ELSE <<"s">>]

\* ------------------------------------------------------ format_tools_for_llm
\* if "name" in tool and "parameters" in tool and "description" in tool
HasAllFields(tool) ==
  "name" \in DOMAIN tool /\ "parameters" \in DOMAIN tool /\ "description" \in DOMAIN tool

formatted_tool(tool) ==
  [type |-> "function",
   function |-> [name |-> tool["name"],
                 description |-> tool["description"],
                 parameters |-> tool["parameters"]]]

\* d[k] = v on a dict
DictPut(d, k, v) == [x \in DOMAIN d \cup {k} |-> IF x = k THEN v ELSE d[x]]

EmptyDict == [x \in {} |-> 0]

\* format_tools_for_llm that keeps the first proxy bound to a name.
RECURSIVE format_tools_for_llm_KeepFirst(_, _)
format_tools_for_llm_KeepFirst(tools, first_id) ==
  IF tools = <<>>
  THEN [formatted_tools |-> <<>>, available_functions |-> EmptyDict, created |-> <<>>]
  ELSE LET prev == format_tools_for_llm_KeepFirst(SubSeq(tools, 1, Len(tools) - 1), first_id)
           tool == tools[Len(tools)]
       IN IF HasAllFields(tool)
          THEN [formatted_tools |-> Append(prev.formatted_tools, formatted_tool(tool)),
                available_functions |->
                  IF tool["name"] \in DOMAIN prev.available_functions
                  THEN prev.available_functions
                  ELSE DictPut(prev.available_functions, tool["name"],
                               first_id + Len(prev.created)),
                created |-> Append(prev.created, tool["name"])]
          ELSE prev

\* The loop over tools.  created lists the names handed to create_tool_proxy,
\* in order; the proxy made by the k-th of these calls has id first_id + k - 1.
RECURSIVE format_tools_for_llm(_, _)
format_tools_for_llm(tools, first_id) ==
  IF tools = <<>>
  THEN [formatted_tools |-> <<>>, available_functions |-> EmptyDict, created |-> <<>>]
  ELSE LET prev == format_tools_for_llm(SubSeq(tools, 1, Len(tools) - 1), first_id)
           tool == tools[Len(tools)]
       IN IF HasAllFields(tool)
          THEN [formatted_tools |-> Append(prev.formatted_tools, formatted_tool(tool)),
                available_functions |->
                  DictPut(prev.available_functions, tool["name"],
                          first_id + Len(prev.created)),
                created |-> Append(prev.created, tool["name"])]
          ELSE prev

\* ------------------------------------------------------- create_tool_proxy
\* A proxy is the closure over tool_name made in one of the two modules that
\* define create_tool_proxy.
Modules == {"copilotkit_integration", "main"}

Proxy(tool_name, module) == [tool_name |-> tool_name, module |-> module]

\* --------------------------------------------------------------- tokens
TOOL == "Tool "
CALLED == " called successfully with parameters: "
NL == "\n"
SPACE == " "

\* The repr of the kwargs dict of an invocation, one token.
BlueArgs == "{'background': 'blue'}"
ArgsSet == {BlueArgs}

\* f"\n\nTool {tool_name} called successfully with parameters: {kwargs}\n\n"
Ack(tool_name, args) == <<NL, NL, TOOL>> \o tool_name \o <<CALLED, args, NL, NL>>

\* {"tool_name": ..., "args": ..., "timestamp": event.timestamp}
ToolCallRecord(tool_name, args, timestamp) ==
  [tool_name |-> tool_name, args |-> args, timestamp |-> timestamp]

\* ---------------------------------------------------- handle_tool_responses
\* An Optional[str] in token form: None is the sequence of the None marker.
NoneStr == <<None>>
TruthyStr(s) == s # NoneStr /\ s # <<>>

Whitespace == {SPACE, NL}

RECURSIVE LStrip(_)
LStrip(s) == IF s # <<>> /\ s[1] \in Whitespace THEN LStrip(Tail(s)) ELSE s

RECURSIVE RStrip(_)
RStrip(s) ==
  IF s # <<>> /\ s[Len(s)] \in Whitespace THEN RStrip(SubSeq(s, 1, Len(s) - 1)) ELSE s

\* str.strip()
strip(s) == RStrip(LStrip(s))

\* pat in s
Occurs(pat, s) ==
  \E i \in 0..(Len(s) - Len(pat)) : SubSeq(s, i + 1, i + Len(pat)) = pat

\* all(f"Tool {call['tool_name']}" in response for call in log[count:])
AllNewCallsEchoed(response, tools_called_count, log) ==
  LET new == PySliceFrom(log, tools_called_count)
  IN \A i \in 1..Len(new) : Occurs(<<TOOL>> \o new[i].tool_name, response)

\* need_followup without the test that new tool calls were made.
need_followup_NoNewCallsTest(response, tools_called_count, log) ==
  strip(response) = <<>> \/ AllNewCallsEchoed(response, tools_called_count, log)

\* new_tools_called and (not response.strip() or all(...))
need_followup(response, tools_called_count, log) ==
  LET new_tools_called == Len(log) > tools_called_count
  IN IF new_tools_called
     THEN strip(response) = <<>> \/ AllNewCallsEchoed(response, tools_called_count, log)
     ELSE FALSE

DefaultFollowUpPrompt ==
  <<"Please provide your complete response now that the tools have been used.">>

\* What llm.call gives back: a reply, or an exception.
LLMRaises == <<"<exception>">>

LLMCall(messages, tools, available_functions) ==
  [messages |-> messages, tools |-> tools, available_functions |-> available_functions]

\* handle_tool_responses appending to the caller's list instead of a copy.
handle_tool_responses_NoCopy(response, messages, tools_called_count, follow_up_prompt, log, llm_reply) ==
  IF need_followup(response, tools_called_count, log)
  THEN LET prompt == IF TruthyStr(follow_up_prompt) THEN follow_up_prompt
                     ELSE DefaultFollowUpPrompt
           follow_up_messages ==
             messages \o <<Message("assistant", response), Message("user", prompt)>>
       IN [llm_calls |-> <<LLMCall(follow_up_messages, None, None)>>,
           raised |-> llm_reply = LLMRaises,
           result |-> IF llm_reply = LLMRaises THEN <<>>
                      ELSE response \o <<NL, NL>> \o llm_reply,
           messages |-> follow_up_messages,
           log |-> log]
  ELSE [llm_calls |-> <<>>, raised |-> FALSE, result |-> response,
        messages |-> messages, log |-> log]

\* The body of handle_tool_responses: the calls made to the model, the value
\* returned (or the exception of llm.call leaving the function), and the
\* caller's list and the log as the call leaves them.
handle_tool_responses(response, messages, tools_called_count, follow_up_prompt, log, llm_reply) ==
  IF need_followup(response, tools_called_count, log)
  THEN LET prompt == IF TruthyStr(follow_up_prompt) THEN follow_up_prompt
                     ELSE DefaultFollowUpPrompt
           follow_up_messages ==
             messages \o <<Message("assistant", response), Message("user", prompt)>>
       IN [llm_calls |-> <<LLMCall(follow_up_messages, None, None)>>,
           raised |-> llm_reply = LLMRaises,
           result |-> IF llm_reply = LLMRaises THEN <<>>
                      ELSE response \o <<NL, NL>> \o llm_reply,
           messages |-> messages,
           log |-> log]
  ELSE [llm_calls |-> <<>>, raised |-> FALSE, result |-> response,
        messages |-> messages, log |-> log]

\* --------------------------------------------------------------- variables
VARIABLES
  state_messages,       \* self.state.messages of the flow
  raw_input,            \* self._raw_input of the flow
  caller_messages,      \* the list the caller passes to handle_tool_responses
  proxies,              \* every proxy made by create_tool_proxy, in creation order
  calls,                \* every invocation of a proxy, with its position
  tool_calls_log,       \* copilotkit_integration.tool_calls_log
  main_tool_calls_log,  \* main.tool_calls_log
  emitted,              \* the events handed to crewai_event_bus.emit, in order
  now,                  \* the clock read by datetime.datetime.now()
  inputs,               \* the arguments of the call a single-method driver makes
  ret,                  \* the most recent call of a flow method and its result
  tools_from_input,     \* _tools_from_input of the two flow base classes
  flows,                \* the flow instances made in the process, in creation order
  entry                 \* the call of entrypoint.kickoff

vars == <<state_messages, raw_input, caller_messages, proxies, calls,
          tool_calls_log, main_tool_calls_log, emitted, now, inputs, ret,
          tools_from_input, flows, entry>>

instance_vars == <<tools_from_input, flows, entry>>
flow_vars == <<state_messages, raw_input, caller_messages, inputs, instance_vars>>
proxy_vars == <<proxies, calls, tool_calls_log, main_tool_calls_log, emitted, now>>

NoRet == [op |-> "none"]
NoInputs == [op |-> "none"]

\* One call of get_message_history on the flow; the flow is left as it was.
GetMessageHistory(system_prompt, max_messages) ==
  /\ ret' = [op |-> "get_message_history",
             system_prompt |-> system_prompt,
             max_messages |-> max_messages,
             merged |-> MergeHistory(system_prompt, state_messages, raw_input).messages,
             early |-> MergeHistory(system_prompt, state_messages, raw_input).early,
             result |-> get_message_history(system_prompt, max_messages,
                                            state_messages, raw_input)]
  /\ UNCHANGED <<flow_vars, proxy_vars>>

\* -------------------------------------------- specification of the resolver
InitProxiesEmpty ==
  /\ proxies = <<>>
  /\ calls = <<>>
  /\ tool_calls_log = <<>>
  /\ main_tool_calls_log = <<>>
  /\ emitted = <<>>

\* The process before any flow is made: both classes hold _tools_from_input = []
\* and entrypoint.kickoff has not been called.
NoEntry == [pc |-> "idle"]

InitNoFlows ==
  /\ tools_from_input = [class \in Modules |-> <<>>]
  /\ flows = <<>>
  /\ entry = NoEntry
  /\ now = 0

InitHistory ==
  /\ state_messages \in SeqsUpTo(StateMessageSet, MaxStateLen)
  /\ raw_input \in RawInputSet(MaxRawLen)
  /\ caller_messages = <<>>
  /\ InitProxiesEmpty
  /\ inputs \in [system_prompt : SystemPrompts, max_messages : 1..MaxMessages]
  /\ ret = NoRet
  /\ InitNoFlows

NextHistory == GetMessageHistory(inputs.system_prompt, inputs.max_messages)

SpecHistory == InitHistory /\ [][NextHistory]_vars

\* --------------------------------------------- specification of the formatter
\* One call of format_tools_for_llm: it makes one proxy per complete
\* descriptor and returns the formatted tools and the name -> proxy dict.
FormatToolsForLLM(tools) ==
  LET out == format_tools_for_llm(tools, Len(proxies) + 1)
  IN /\ Len(proxies) + Len(out.created) <= MaxProxies
     /\ proxies' = proxies \o [k \in 1..Len(out.created) |->
                                 Proxy(out.created[k], "copilotkit_integration")]
     /\ ret' = [op |-> "format_tools_for_llm",
                tools |-> tools,
                first_id |-> Len(proxies) + 1,
                formatted_tools |-> out.formatted_tools,
                available_functions |-> out.available_functions]
     /\ UNCHANGED <<flow_vars, calls, tool_calls_log, main_tool_calls_log, emitted, now>>

InitFormat ==
  /\ state_messages = <<>>
  /\ raw_input = NoRawInput
  /\ caller_messages = <<>>
  /\ InitProxiesEmpty
  /\ inputs \in [tools : SeqsUpTo(ToolDescriptorSet, MaxTools)]
  /\ ret = NoRet
  /\ InitNoFlows

NextFormat == FormatToolsForLLM(inputs.tools)

SpecFormat == InitFormat /\ [][NextFormat]_vars

\* ------------------------------------------------------------- tool proxies
\* create_tool_proxy(tool_name) in one of the two modules.
CreateToolProxy(tool_name, module) ==
  /\ Len(proxies) < MaxProxies
  /\ proxies' = Append(proxies, Proxy(tool_name, module))
  /\ UNCHANGED <<flow_vars, calls, tool_calls_log, main_tool_calls_log, emitted, now, ret>>

\* The clock advances.
Tick ==
  /\ now < MaxClock
  /\ now' = now + 1
  /\ UNCHANGED <<flow_vars, proxies, calls, tool_calls_log, main_tool_calls_log, emitted, ret>>

\* The log of the module whose create_tool_proxy made the proxy of call c.
ModuleOf(c) == proxies[calls[c].proxy].module
NameOf(c) == proxies[calls[c].proxy].tool_name
LogOf(module) ==
  IF module = "copilotkit_integration" THEN tool_calls_log ELSE main_tool_calls_log

\* tool_proxy(**kwargs) begins: CopilotKitToolCallEvent(...) reads the clock.
\* seen is the length of the module's log at that moment and index the place
\* the record of the call later takes in it (0 before the append); neither is
\* read by any step.
InvokeToolProxy(id, args) ==
  /\ Len(calls) < MaxCalls
  /\ calls' = Append(calls, [proxy |-> id, args |-> args, timestamp |-> now,
                             pc |-> "created",
                             seen |-> Len(LogOf(proxies[id].module)),
                             index |-> 0, ret |-> <<>>])
  /\ UNCHANGED <<flow_vars, proxies, tool_calls_log, main_tool_calls_log, emitted, now, ret>>

\* The proxy putting its record at the head of the log.
AppendRecord_AtHead(c) ==
  LET rec == ToolCallRecord(NameOf(c), calls[c].args, calls[c].timestamp)
  IN /\ calls[c].pc = "created"
     /\ IF ModuleOf(c) = "copilotkit_integration"
        THEN /\ tool_calls_log' = <<rec>> \o tool_calls_log
             /\ UNCHANGED main_tool_calls_log
        ELSE /\ main_tool_calls_log' = <<rec>> \o main_tool_calls_log
             /\ UNCHANGED tool_calls_log
     /\ calls' = [calls EXCEPT ![c].pc = "logged", ![c].index = 1]
     /\ UNCHANGED <<flow_vars, proxies, emitted, now, ret>>

\* tool_calls_log.append({...})
AppendRecord(c) ==
  LET rec == ToolCallRecord(NameOf(c), calls[c].args, calls[c].timestamp)
  IN /\ calls[c].pc = "created"
     /\ IF ModuleOf(c) = "copilotkit_integration"
        THEN /\ tool_calls_log' = Append(tool_calls_log, rec)
             /\ UNCHANGED main_tool_calls_log
        ELSE /\ main_tool_calls_log' = Append(main_tool_calls_log, rec)
             /\ UNCHANGED tool_calls_log
     /\ calls' = [calls EXCEPT ![c].pc = "logged",
                               ![c].index = Len(LogOf(ModuleOf(c))) + 1]
     /\ UNCHANGED <<flow_vars, proxies, emitted, now, ret>>

\* The event of call c as the bus receives it.
EventOf(c) ==
  [tool_name |-> NameOf(c), args |-> calls[c].args,
   timestamp |-> calls[c].timestamp, call |-> c]

\* The proxy emitting before it appends to the log.
EmitEvent_BeforeAppend(c) ==
  /\ calls[c].pc = "created"
  /\ emitted' = Append(emitted, EventOf(c))
  /\ calls' = [calls EXCEPT ![c].pc = "emitted"]
  /\ UNCHANGED <<flow_vars, proxies, tool_calls_log, main_tool_calls_log, now, ret>>

\* assert hasattr(crewai_event_bus, "emit"); crewai_event_bus.emit(None, event=event)
\* with the bus taking the event.
EmitEvent(c) ==
  /\ calls[c].pc = "logged"
  /\ emitted' = Append(emitted, EventOf(c))
  /\ calls' = [calls EXCEPT ![c].pc = "emitted"]
  /\ UNCHANGED <<flow_vars, proxies, tool_calls_log, main_tool_calls_log, now, ret>>

\* The same two statements with the bus lacking emit, or emit raising: nothing
\* around them catches the exception, which leaves tool_proxy.
EmitRaises(c) ==
  /\ calls[c].pc = "logged"
  /\ calls' = [calls EXCEPT ![c].pc = "raised"]
  /\ UNCHANGED <<flow_vars, proxies, tool_calls_log, main_tool_calls_log, emitted, now, ret>>

\* return f"\n\nTool {tool_name} called successfully with parameters: {kwargs}\n\n"
ReturnAck(c) ==
  /\ calls[c].pc = "emitted"
  /\ calls' = [calls EXCEPT ![c].pc = "returned",
                            ![c].ret = Ack(NameOf(c), calls[c].args)]
  /\ UNCHANGED <<flow_vars, proxies, tool_calls_log, main_tool_calls_log, emitted, now, ret>>

\* ------------------------------------------------------- get_tools_summary
GetToolsSummary ==
  /\ ret' = [op |-> "get_tools_summary",
             total |-> Len(tool_calls_log),
             entries |-> [i \in 1..Len(tool_calls_log) |->
                            <<i, tool_calls_log[i].tool_name, tool_calls_log[i].args,
                              tool_calls_log[i].timestamp>>]]
  /\ UNCHANGED <<flow_vars, proxy_vars>>

\* One call of handle_tool_responses with the caller's list as messages.
HandleToolResponses(response, tools_called_count, follow_up_prompt, llm_reply) ==
  LET out == handle_tool_responses(response, caller_messages, tools_called_count,
                                   follow_up_prompt, tool_calls_log, llm_reply)
  IN /\ caller_messages' = out.messages
     /\ tool_calls_log' = out.log
     /\ ret' = [op |-> "handle_tool_responses",
                response |-> response,
                messages |-> caller_messages,
                tools_called_count |-> tools_called_count,
                follow_up_prompt |-> follow_up_prompt,
                llm_reply |-> llm_reply,
                llm_calls |-> out.llm_calls,
                raised |-> out.raised,
                result |-> out.result]
     /\ UNCHANGED <<state_messages, raw_input, inputs, proxies, calls,
                    main_tool_calls_log, emitted, now, instance_vars>>

\* ------------------------------------ specification of the follow-up decision
ResponseTokens == {TOOL, SPACE, "a", "b"}
FollowUpPrompts == {NoneStr, <<>>, <<"F">>}
LLMReplies == {<<"x">>, LLMRaises}
CallerMessageLists == {<<>>, <<Message("user", <<"a">>)>>}

\* The process after the k proxies of the given names were each made by
\* copilotkit_integration.create_tool_proxy and invoked once, one after the
\* other, at clock 0.
InitFollowUp ==
  /\ state_messages = <<>>
  /\ raw_input = NoRawInput
  /\ caller_messages \in CallerMessageLists
  /\ \E names \in SeqsUpTo(ToolNames, MaxLogLen) :
       /\ proxies = [i \in 1..Len(names) |-> Proxy(names[i], "copilotkit_integration")]
       /\ calls = [i \in 1..Len(names) |->
                     [proxy |-> i, args |-> BlueArgs, timestamp |-> 0, pc |-> "returned",
                      seen |-> i - 1, index |-> i, ret |-> Ack(names[i], BlueArgs)]]
       /\ tool_calls_log = [i \in 1..Len(names) |-> ToolCallRecord(names[i], BlueArgs, 0)]
       /\ emitted = [i \in 1..Len(names) |->
                       [tool_name |-> names[i], args |-> BlueArgs, timestamp |-> 0, call |-> i]]
  /\ main_tool_calls_log = <<>>
  /\ now = 0
  /\ inputs \in [response : SeqsUpTo(ResponseTokens, MaxResponseLen),
                 tools_called_count : 0..(Len(tool_calls_log) + 1),
                 follow_up_prompt : FollowUpPrompts,
                 llm_reply : LLMReplies]
  /\ ret = NoRet
  /\ InitNoFlows

NextFollowUp ==
  HandleToolResponses(inputs.response, inputs.tools_called_count,
                      inputs.follow_up_prompt, inputs.llm_reply)

SpecFollowUp == InitFollowUp /\ [][NextFollowUp]_vars

\* ------------------------------------------------ specification of the process
KickoffToolLists ==
  {<<ToolDescriptor(<<"a", "b">>), [name |-> <<"a">>, description |-> <<"d">>]>>}

Init ==
  /\ state_messages = <<>>
  /\ raw_input = NoRawInput
  /\ caller_messages = <<>>
  /\ InitProxiesEmpty
  /\ inputs = NoInputs
  /\ ret = NoRet
  /\ InitNoFlows

Next ==
  \/ \E name \in ToolNames, module \in Modules : CreateToolProxy(name, module)
  \/ \E tools \in KickoffToolLists : FormatToolsForLLM(tools)
  \/ Tick
  \/ \E id \in 1..Len(proxies), args \in ArgsSet : InvokeToolProxy(id, args)
  \/ \E c \in 1..Len(calls) : AppendRecord(c)
  \/ \E c \in 1..Len(calls) : EmitEvent(c)
  \/ \E c \in 1..Len(calls) : EmitRaises(c)
  \/ \E c \in 1..Len(calls) : ReturnAck(c)
  \/ GetMessageHistory("P", MaxMessages)
  \/ HandleToolResponses(<<>>, 0, NoneStr, <<"x">>)
  \/ GetToolsSummary

Spec == Init /\ [][Next]_vars

\* ------------------------------------------------------------ flow instances
MaxFlows == 2
MaxTurns == 2

\* A str object standing in a list whose other elements are dicts.
PyStr(s) == [str |-> s]

\* The argument of kickoff: a non-dict, or a dict with or without the keys
\* "messages" and "tools".  NoInput stands where no kickoff was made yet.
NoInput ==
  [kind |-> "absent", has_messages |-> FALSE, messages |-> <<>>,
   has_tools |-> FALSE, tools |-> <<>>]
NonDictInput ==
  [kind |-> "nondict", has_messages |-> FALSE, messages |-> <<>>,
   has_tools |-> FALSE, tools |-> <<>>]
DictInput(has_messages, msgs, has_tools, tools) ==
  [kind |-> "dict", has_messages |-> has_messages, messages |-> msgs,
   has_tools |-> has_tools, tools |-> tools]

\* A flow instance right after construction.  class is the module of its base
\* class: CopilotKitFlow of copilotkit_integration or EnhancedCopilotKitFlow
\* (under AgenticChatFlow) of main.  kickoff_input is the argument of the
\* kickoff that began the current turn and turn counts the kickoffs; pc is the
\* position of the turn, llm_messages and available_functions are the
\* arguments of its llm.call, snapshot the length of the log it noted before
\* the call and result what the turn returned.
Flow(class) ==
  [class |-> class, kickoff_input |-> NoInput, turn |-> 0, pc |-> "new",
   actions |-> <<>>, messages |-> <<>>,
   llm_messages |-> <<>>, available_functions |-> EmptyDict,
   snapshot |-> 0, result |-> NoneStr]

\* AgenticChatFlow() or a subclass of CopilotKitFlow being constructed.
NewFlow(class) ==
  /\ Len(flows) < MaxFlows
  /\ flows' = Append(flows, Flow(class))
  /\ UNCHANGED <<state_messages, raw_input, caller_messages, inputs, proxy_vars,
                 ret, tools_from_input, entry>>

\* if isinstance(state, dict) and "tools" in state:
\*     <class>._tools_from_input = state.get("tools", [])
StoreTools(class, input) ==
  IF input.kind = "dict" /\ input.has_tools
  THEN [tools_from_input EXCEPT ![class] = input.tools]
  ELSE tools_from_input

\* super().kickoff(state): the flow's state takes the fields the input dict
\* holds; "messages" is the one field of the state the input can hold here.
StateMessagesAfterKickoff(flow, input) ==
  IF input.kind = "dict" /\ input.has_messages THEN input.messages ELSE flow.messages

\* pre_chat: if <class>._tools_from_input: self.state.copilotkit.actions = it
pre_chat(actions, cached_tools) ==
  IF cached_tools # <<>> THEN cached_tools ELSE actions

\* ------------------------------------------------------ AgenticChatFlow.chat
SystemPrompt == "You are a helpful assistant."
ERROR_OCCURRED == "An error occurred: "

\* f"\n\nAn error occurred: {str(e)}\n\n"
ErrorText(e) == <<NL, NL, ERROR_OCCURRED>> \o e \o <<NL, NL>>

\* messages = [{"role": "system", ...}] extended by self.state.messages
ChatMessages(state_msgs) == <<Message("system", SystemPrompt)>> \o state_msgs

\* The proxy ids a turn handed to llm.call.
ProxiesOf(flow) == {flow.available_functions[n] : n \in DOMAIN flow.available_functions}
CallsOf(flow) == {c \in 1..Len(calls) : calls[c].proxy \in ProxiesOf(flow)}

\* The calls llm.call made have all come back to it, by return or by exception.
CallsSettled(flow) == \A c \in CallsOf(flow) : calls[c].pc \in {"returned", "raised"}

\* AgenticChatFlow.kickoff(state) up to the moment chat hands over to llm.call:
\* EnhancedCopilotKitFlow.kickoff stores the tools and starts the flow, chat runs
\* pre_chat, builds the messages and makes one proxy per complete descriptor
\* with main.create_tool_proxy.  The loop over the tools is the loop of
\* format_tools_for_llm.
AgenticChatFlowKickoff(f, input) ==
  LET cached == StoreTools("main", input)
      actions == pre_chat(flows[f].actions, cached["main"])
      msgs == StateMessagesAfterKickoff(flows[f], input)
      out == format_tools_for_llm(actions, Len(proxies) + 1)
  IN /\ flows[f].class = "main"
     /\ flows[f].pc \in {"new", "done", "raised"}
     /\ flows[f].turn < MaxTurns
     /\ Len(proxies) + Len(out.created) <= MaxProxies
     /\ tools_from_input' = cached
     /\ proxies' = proxies \o [k \in 1..Len(out.created) |-> Proxy(out.created[k], "main")]
     /\ flows' = [flows EXCEPT ![f] =
                    [@ EXCEPT !.kickoff_input = input, !.turn = @ + 1, !.pc = "llm",
                              !.actions = actions, !.messages = msgs,
                              !.llm_messages = ChatMessages(msgs),
                              !.available_functions = out.available_functions,
                              !.result = NoneStr]]
     /\ UNCHANGED <<state_messages, raw_input, caller_messages, inputs, calls,
                    tool_calls_log, main_tool_calls_log, emitted, now, ret, entry>>

\* The same call with LLM(model="gpt-4o", stream=True) raising: chat has run
\* pre_chat, nothing catches the exception and the flow's kickoff raises.
AgenticChatFlowKickoffRaises(f, input) ==
  LET cached == StoreTools("main", input)
  IN /\ flows[f].class = "main"
     /\ flows[f].pc \in {"new", "done", "raised"}
     /\ flows[f].turn < MaxTurns
     /\ tools_from_input' = cached
     /\ flows' = [flows EXCEPT ![f] =
                    [@ EXCEPT !.kickoff_input = input, !.turn = @ + 1, !.pc = "raised",
                              !.actions = pre_chat(flows[f].actions, cached["main"]),
                              !.messages = StateMessagesAfterKickoff(flows[f], input),
                              !.llm_messages = <<>>,
                              !.available_functions = EmptyDict,
                              !.result = NoneStr]]
     /\ UNCHANGED <<state_messages, raw_input, caller_messages, inputs, proxy_vars,
                    ret, entry>>

\* llm.call returns response: self.state.messages.append(response); return response
ChatReturn(f, response) ==
  /\ flows[f].class = "main"
  /\ flows[f].pc = "llm"
  /\ CallsSettled(flows[f])
  /\ flows' = [flows EXCEPT ![f] =
                 [@ EXCEPT !.pc = "done", !.result = response,
                           !.messages = Append(@, PyStr(response))]]
  /\ ret' = [op |-> "chat", flow |-> f, turn |-> flows[f].turn, raised |-> FALSE,
             response |-> response, result |-> response,
             messages_before |-> flows[f].messages]
  /\ UNCHANGED <<state_messages, raw_input, caller_messages, inputs, proxy_vars,
                 tools_from_input, entry>>

\* chat answering a failed model call by adding the error text to the session.
ChatRaise_AppendsError(f, e) ==
  /\ flows[f].class = "main"
  /\ flows[f].pc = "llm"
  /\ CallsSettled(flows[f])
  /\ flows' = [flows EXCEPT ![f] =
                 [@ EXCEPT !.pc = "done", !.result = ErrorText(e),
                           !.messages = Append(@, PyStr(ErrorText(e)))]]
  /\ ret' = [op |-> "chat", flow |-> f, turn |-> flows[f].turn, raised |-> TRUE,
             response |-> e, result |-> ErrorText(e),
             messages_before |-> flows[f].messages]
  /\ UNCHANGED <<state_messages, raw_input, caller_messages, inputs, proxy_vars,
                 tools_from_input, entry>>

\* llm.call raises e: except Exception as e: return f"\n\nAn error occurred: ..."
ChatRaise(f, e) ==
  /\ flows[f].class = "main"
  /\ flows[f].pc = "llm"
  /\ CallsSettled(flows[f])
  /\ flows' = [flows EXCEPT ![f] = [@ EXCEPT !.pc = "done", !.result = ErrorText(e)]]
  /\ ret' = [op |-> "chat", flow |-> f, turn |-> flows[f].turn, raised |-> TRUE,
             response |-> e, result |-> ErrorText(e),
             messages_before |-> flows[f].messages]
  /\ UNCHANGED <<state_messages, raw_input, caller_messages, inputs, proxy_vars,
                 tools_from_input, entry>>

\* llm.call invoking one of the functions it was given.
LLMInvokesTool(f, args) ==
  /\ flows[f].pc = "llm"
  /\ \E id \in ProxiesOf(flows[f]) : InvokeToolProxy(id, args)

\* ------------------------------------------- specification of the chat turns
ChatResponses == {<<"x">>, <<>>}
ExceptionMessages == {<<"e">>, <<>>}

KickoffInputs ==
  {NonDictInput,
   DictInput(TRUE, <<Message("user", "p")>>, TRUE, <<ToolDescriptor(<<"a">>)>>),
   DictInput(TRUE, <<Message("user", "q")>>, FALSE, <<>>),
   DictInput(FALSE, <<>>, TRUE, <<>>),
   DictInput(FALSE, <<>>, TRUE,
             <<ToolDescriptor(<<"a", "b">>), [name |-> <<"a">>, description |-> <<"d">>]>>)}

\* The process holding one session: AgenticChatFlow() was just constructed.
InitChat ==
  /\ state_messages = <<>>
  /\ raw_input = NoRawInput
  /\ caller_messages = <<>>
  /\ InitProxiesEmpty
  /\ now = 0
  /\ inputs = NoInputs
  /\ ret = NoRet
  /\ tools_from_input = [class \in Modules |-> <<>>]
  /\ flows = <<Flow("main")>>
  /\ entry = NoEntry

NextChat ==
  \/ \E f \in 1..Len(flows), input \in KickoffInputs : AgenticChatFlowKickoff(f, input)
  \/ \E f \in 1..Len(flows), input \in KickoffInputs : AgenticChatFlowKickoffRaises(f, input)
  \/ \E f \in 1..Len(flows), args \in ArgsSet : LLMInvokesTool(f, args)
  \/ \E c \in 1..Len(calls) : AppendRecord(c)
  \/ \E c \in 1..Len(calls) : EmitEvent(c)
  \/ \E c \in 1..Len(calls) : EmitRaises(c)
  \/ \E c \in 1..Len(calls) : ReturnAck(c)
  \/ \E f \in 1..Len(flows), response \in ChatResponses : ChatReturn(f, response)
  \/ \E f \in 1..Len(flows), e \in ExceptionMessages : ChatRaise(f, e)
  \/ GetToolsSummary

SpecChat == InitChat /\ [][NextChat]_vars

\* ---------------------------------------------------- turns of CopilotKitFlow
\* CopilotKitFlow.kickoff(inputs): stores the tools on the class, keeps the
\* input as self._raw_input and starts the flow.
CopilotKitFlowKickoff(f, input) ==
  /\ flows[f].class = "copilotkit_integration"
  /\ flows[f].pc \in {"new", "pre_chat", "done"}
  /\ flows[f].turn < MaxTurns
  /\ tools_from_input' = StoreTools("copilotkit_integration", input)
  /\ flows' = [flows EXCEPT ![f] =
                 [@ EXCEPT !.kickoff_input = input, !.turn = @ + 1, !.pc = "started",
                           !.messages = StateMessagesAfterKickoff(flows[f], input),
                           !.llm_messages = <<>>,
                           !.available_functions = EmptyDict,
                           !.result = NoneStr]]
  /\ UNCHANGED <<state_messages, raw_input, caller_messages, inputs, proxy_vars,
                 ret, entry>>

\* CopilotKitFlow.pre_chat, called by the flow's start method.
PreChat(f) ==
  /\ flows[f].class = "copilotkit_integration"
  /\ flows[f].pc = "started"
  /\ flows' = [flows EXCEPT ![f] =
                 [@ EXCEPT !.pc = "pre_chat",
                           !.actions = pre_chat(@, tools_from_input["copilotkit_integration"])]]
  /\ UNCHANGED <<state_messages, raw_input, caller_messages, inputs, proxy_vars,
                 ret, tools_from_input, entry>>

\* The start method of a CopilotKitFlow going on to its model call: it notes
\* the length of the log, formats the installed tools and hands the proxies
\* to llm.call.
TurnCallsModel(f) ==
  LET out == format_tools_for_llm(flows[f].actions, Len(proxies) + 1)
  IN /\ flows[f].class = "copilotkit_integration"
     /\ flows[f].pc = "pre_chat"
     /\ Len(proxies) + Len(out.created) <= MaxProxies
     /\ proxies' = proxies \o [k \in 1..Len(out.created) |->
                                 Proxy(out.created[k], "copilotkit_integration")]
     /\ flows' = [flows EXCEPT ![f] =
                    [@ EXCEPT !.pc = "llm",
                              !.snapshot = Len(tool_calls_log),
                              !.llm_messages = flows[f].messages,
                              !.available_functions = out.available_functions]]
     /\ UNCHANGED <<state_messages, raw_input, caller_messages, inputs, calls,
                    tool_calls_log, main_tool_calls_log, emitted, now, ret,
                    tools_from_input, entry>>

\* llm.call has returned response and the start method ends the turn with
\* handle_tool_responses(llm, response, messages, tools_called_count).
TurnHandleToolResponses(f, response, llm_reply) ==
  LET out == handle_tool_responses(response, flows[f].llm_messages, flows[f].snapshot,
                                   NoneStr, tool_calls_log, llm_reply)
  IN /\ flows[f].class = "copilotkit_integration"
     /\ flows[f].pc = "llm"
     /\ CallsSettled(flows[f])
     /\ tool_calls_log' = out.log
     /\ flows' = [flows EXCEPT ![f] = [@ EXCEPT !.pc = "done", !.result = out.result]]
     /\ ret' = [op |-> "turn", flow |-> f, turn |-> flows[f].turn,
                response |-> response,
                tools_called_count |-> flows[f].snapshot,
                inspected |-> PySliceFrom(tool_calls_log, flows[f].snapshot),
                llm_calls |-> out.llm_calls,
                raised |-> out.raised,
                result |-> out.result]
     /\ UNCHANGED <<state_messages, raw_input, caller_messages, inputs, proxies, calls,
                    main_tool_calls_log, emitted, now, tools_from_input, entry>>

\* ------------------------------------- specification of interleaving turns
TurnInputs ==
  {DictInput(TRUE, <<Message("user", "p")>>, TRUE, <<ToolDescriptor(<<"a">>)>>),
   DictInput(TRUE, <<Message("user", "q")>>, TRUE, <<ToolDescriptor(<<"a", "b">>)>>)}

TurnResponses == {<<>>, <<TOOL, "a">>}

InitTurns ==
  /\ state_messages = <<>>
  /\ raw_input = NoRawInput
  /\ caller_messages = <<>>
  /\ InitProxiesEmpty
  /\ now = 0
  /\ inputs = NoInputs
  /\ ret = NoRet
  /\ InitNoFlows

NextTurns ==
  \/ NewFlow("copilotkit_integration")
  \/ \E f \in 1..Len(flows), input \in TurnInputs : CopilotKitFlowKickoff(f, input)
  \/ \E f \in 1..Len(flows) : PreChat(f)
  \/ \E f \in 1..Len(flows) : TurnCallsModel(f)
  \/ \E f \in 1..Len(flows), args \in ArgsSet : LLMInvokesTool(f, args)
  \/ \E c \in 1..Len(calls) : AppendRecord(c)
  \/ \E c \in 1..Len(calls) : EmitEvent(c)
  \/ \E c \in 1..Len(calls) : EmitRaises(c)
  \/ \E c \in 1..Len(calls) : ReturnAck(c)
  \/ \E f \in 1..Len(flows), response \in TurnResponses :
       TurnHandleToolResponses(f, response, <<"x">>)

SpecTurns == InitTurns /\ [][NextTurns]_vars

\* ------------------------------------------ specification of the tool cache
\* Flows of both classes are made, kicked off and run up to and past pre_chat;
\* the model of a turn invokes no tool here.
ToolInputs ==
  {NonDictInput,
   DictInput(FALSE, <<>>, FALSE, <<>>),
   DictInput(FALSE, <<>>, TRUE, <<>>),
   DictInput(FALSE, <<>>, TRUE, <<ToolDescriptor(<<"a">>)>>),
   DictInput(TRUE, <<Message("user", "p")>>, TRUE, <<ToolDescriptor(<<"a", "b">>)>>)}

InitTools ==
  /\ state_messages = <<>>
  /\ raw_input = NoRawInput
  /\ caller_messages = <<>>
  /\ InitProxiesEmpty
  /\ now = 0
  /\ inputs = NoInputs
  /\ ret = NoRet
  /\ InitNoFlows

NextTools ==
  \/ \E class \in Modules : NewFlow(class)
  \/ \E f \in 1..Len(flows), input \in ToolInputs : CopilotKitFlowKickoff(f, input)
  \/ \E f \in 1..Len(flows) : PreChat(f)
  \/ \E f \in 1..Len(flows), input \in ToolInputs : AgenticChatFlowKickoff(f, input)
  \/ \E f \in 1..Len(flows), input \in ToolInputs : AgenticChatFlowKickoffRaises(f, input)
  \/ \E f \in 1..Len(flows) : ChatReturn(f, <<"x">>)
  \/ \E f \in 1..Len(flows) : ChatRaise(f, <<"e">>)

SpecTools == InitTools /\ [][NextTools]_vars

\* -------------------------------------------------------- entrypoint.kickoff
\* The methods an instance of each flow class has beyond those of crewai's
\* Flow: AgenticChatFlow derives from main.EnhancedCopilotKitFlow, which
\* derives from Flow and not from CopilotKitFlow.
Methods(class) ==
  IF class = "main"
  THEN {"kickoff", "pre_chat", "chat"}
  ELSE {"kickoff", "pre_chat", "get_message_history", "get_available_tools",
        "format_tools_for_llm", "handle_tool_responses", "get_tools_summary"}

\* The three tools of kickoff_input.
EntrypointTools ==
  <<ToolDescriptor(<<"get-details-before-writing-book">>),
    ToolDescriptor(<<"change_background">>),
    ToolDescriptor(<<"flow_finished">>)>>

\* kickoff_input, with the first MaxProxies of its tools.
EntrypointKickoffInput ==
  DictInput(TRUE, <<Message("user", "p")>>,
            TRUE, SubSeq(EntrypointTools, 1, Min(Len(EntrypointTools), MaxProxies)))

\* entrypoint.kickoff up to agentic_chat_flow = AgenticChatFlow().
EntrypointCreatesFlow ==
  /\ entry.pc = "idle"
  /\ Len(flows) < MaxFlows
  /\ flows' = Append(flows, Flow("main"))
  /\ entry' = [pc |-> "kickoff", flow |-> Len(flows) + 1]
  /\ UNCHANGED <<state_messages, raw_input, caller_messages, inputs, proxy_vars,
                 ret, tools_from_input>>

\* agentic_chat_flow.kickoff(kickoff_input) has returned or raised, and
\* entrypoint.kickoff goes on to its end: print(agentic_chat_flow
\* .get_tools_summary()) and return 0, with except Exception: return 1 around
\* all of it.
EntrypointEnds ==
  LET flow == flows[entry.flow]
      flow_raised == flow.pc = "raised"
      has_summary == "get_tools_summary" \in Methods(flow.class)
  IN /\ entry.pc = "kickoff"
     /\ flow.turn = 1
     /\ flow.pc \in {"done", "raised"}
     /\ entry' = [pc |-> "done", flow |-> entry.flow,
                  flow_raised |-> flow_raised,
                  chat_result |-> flow.result,
                  summary_printed |-> ~flow_raised /\ has_summary,
                  code |-> IF ~flow_raised /\ has_summary THEN 0 ELSE 1]
     /\ UNCHANGED <<state_messages, raw_input, caller_messages, inputs, proxy_vars,
                    ret, tools_from_input, flows>>

\* ------------------------------------------ specification of the entry point
InitEntrypoint ==
  /\ state_messages = <<>>
  /\ raw_input = NoRawInput
  /\ caller_messages = <<>>
  /\ InitProxiesEmpty
  /\ now = 0
  /\ inputs = NoInputs
  /\ ret = NoRet
  /\ InitNoFlows

EntryFlowAt(turn) ==
  entry.pc = "kickoff" /\ flows[entry.flow].turn = turn

NextEntrypoint ==
  \/ EntrypointCreatesFlow
  \/ EntryFlowAt(0) /\ AgenticChatFlowKickoff(entry.flow, EntrypointKickoffInput)
  \/ EntryFlowAt(0) /\ AgenticChatFlowKickoffRaises(entry.flow, EntrypointKickoffInput)
  \/ Tick
  \/ \E args \in ArgsSet : EntryFlowAt(1) /\ LLMInvokesTool(entry.flow, args)
  \/ \E c \in 1..Len(calls) : AppendRecord(c)
  \/ \E c \in 1..Len(calls) : EmitEvent(c)
  \/ \E c \in 1..Len(calls) : EmitRaises(c)
  \/ \E c \in 1..Len(calls) : ReturnAck(c)
  \/ \E response \in ChatResponses : EntryFlowAt(1) /\ ChatReturn(entry.flow, response)
  \/ \E e \in ExceptionMessages : EntryFlowAt(1) /\ ChatRaise(entry.flow, e)
  \/ EntrypointEnds

SpecEntrypoint == InitEntrypoint /\ [][NextEntrypoint]_vars

\* ------------------------------------------------------- resolver: claims
HistCalled == ret.op = "get_message_history"

SystemIndexes(ms) == {i \in 1..Len(ms) : ms[i].role = "system"}

\* C1: the list returned by get_message_history holds at most one message
\* with role system, and a system message, if present, is the first element.
C1_OneSystemMessageFirst ==
  HistCalled => /\ Cardinality(SystemIndexes(ret.result)) <= 1
                 /\ SystemIndexes(ret.result) \subseteq {1}

\* The last k elements of ms, in order (k <= Len(ms)).
LastK(ms, k) == SubSeq(ms, Len(ms) - k + 1, Len(ms))

\* C2: a merged history of n > m messages that starts with a system message
\* is returned as that system message followed by its last m-1 messages, a
\* list of length exactly m.
C2_TruncationKeepsSystemAndRecent ==
  (HistCalled /\ Len(ret.merged) > ret.max_messages
               /\ ret.merged[1].role = "system")
    => /\ Len(ret.result) = ret.max_messages
       /\ ret.result = <<ret.merged[1]>> \o LastK(ret.merged, ret.max_messages - 1)

\* C3: on every path the returned list has at most max_messages elements.
C3_LengthAtMostMax ==
  HistCalled => Len(ret.result) <= ret.max_messages

StartsWithSystem(ms) == ms # <<>> /\ ms[1].role = "system"

RecognisedRole(msg) == msg.role = "user" \/ msg.role = "assistant" \/ msg.role = "system"

\* The reference merge as the claim words it: the raw branch is taken whenever
\* the raw input has a non-empty messages list.
RefMergeRawNonEmpty(system_prompt, state_msgs, raw) ==
  LET accumulated == IF Truthy(system_prompt)
                     THEN <<Message("system", system_prompt)>> ELSE <<>>
      filtered == SelectSeq(raw.messages, RecognisedRole)
  IN IF raw.kind = "dict" /\ raw.has_messages /\ raw.messages # <<>>
     THEN IF StartsWithSystem(accumulated) /\ ~StartsWithSystem(filtered)
          THEN accumulated \o filtered
          ELSE filtered
     ELSE IF state_msgs = <<>> THEN accumulated
          ELSE IF StartsWithSystem(state_msgs) THEN state_msgs
               ELSE accumulated \o state_msgs

\* C4 as stated: before truncation the history equals the reference merge in
\* which any non-empty raw messages list shuts out the local state.
C4_Orig_MergeEqualsReference ==
  HistCalled =>
    ret.merged = RefMergeRawNonEmpty(ret.system_prompt, state_messages, raw_input)

\* The reference merge with the raw branch taken only when at least one raw
\* message has a recognised role.
RefMergeRawUsable(system_prompt, state_msgs, raw) ==
  LET accumulated == IF Truthy(system_prompt)
                     THEN <<Message("system", system_prompt)>> ELSE <<>>
      filtered == SelectSeq(raw.messages, RecognisedRole)
  IN IF raw.kind = "dict" /\ raw.has_messages /\ filtered # <<>>
     THEN IF StartsWithSystem(accumulated) /\ ~StartsWithSystem(filtered)
          THEN accumulated \o filtered
          ELSE filtered
     ELSE IF state_msgs = <<>> THEN accumulated
          ELSE IF StartsWithSystem(state_msgs) THEN state_msgs
               ELSE accumulated \o state_msgs

\* C4 (amended): before truncation the history equals the reference merge in
\* which the raw branch is taken only when the filtered raw messages are
\* non-empty; otherwise the local state messages are merged.
C4_MergeEqualsReference ==
  HistCalled =>
    ret.merged = RefMergeRawUsable(ret.system_prompt, state_messages, raw_input)

\* A call whose raw messages are all dropped by the filter while the local
\* state has messages, which are then appended to the prompt.
C4_Witness ==
  /\ HistCalled
  /\ raw_input.kind = "dict" /\ raw_input.has_messages
  /\ raw_input.messages # <<>>
  /\ SelectSeq(raw_input.messages, RecognisedRole) = <<>>
  /\ state_messages # <<>> /\ ~StartsWithSystem(state_messages)
  /\ Truthy(ret.system_prompt)
  /\ ret.merged = <<Message("system", ret.system_prompt)>> \o state_messages

\* ------------------------------------------------------ formatter: claims
FormatCalled == ret.op = "format_tools_for_llm"

\* The positions of the descriptors that carry all three fields.
CompleteIndexes(tools) == {i \in 1..Len(tools) : Fields \subseteq DOMAIN tools[i]}

\* The i-th smallest element of a finite set of integers.
RECURSIVE Nth(_, _)
Nth(S, i) ==
  LET m == CHOOSE x \in S : \A y \in S : x <= y
  IN IF i = 1 THEN m ELSE Nth(S \ {m}, i - 1)

\* One function CallSpec per complete descriptor, in input order, with the
\* descriptor's name, description and parameters; none for the others.
CallSpecsMatch ==
  LET C == CompleteIndexes(ret.tools)
  IN /\ Len(ret.formatted_tools) = Cardinality(C)
     /\ \A k \in 1..Cardinality(C) :
          LET t == ret.tools[Nth(C, k)]
              f == ret.formatted_tools[k]
          IN /\ f.type = "function"
             /\ f.function.name = t.name
             /\ f.function.description = t.description
             /\ f.function.parameters = t.parameters

\* Every bound proxy was made by this call and carries the name it is bound to.
ProxiesBound ==
  \A n \in DOMAIN ret.available_functions :
     LET id == ret.available_functions[n]
     IN /\ id \in ret.first_id..Len(proxies)
        /\ proxies[id].tool_name = n

\* C7 as stated: one CallSpec per complete descriptor, and as many proxies in
\* the mapping as CallSpecs, for every list of descriptors.
C7_Orig_OneProxyPerCallSpec ==
  FormatCalled =>
    /\ CallSpecsMatch
    /\ ProxiesBound
    /\ Cardinality(DOMAIN ret.available_functions) = Len(ret.formatted_tools)

\* C7 (amended): one CallSpec per complete descriptor in input order, and the
\* mapping binds exactly the names of the complete descriptors, each to one
\* proxy of that name made by the call, the last one made for that name; the
\* number of proxies equals the number of CallSpecs when these names are
\* pairwise distinct.
C7_OneProxyPerDistinctName ==
  FormatCalled =>
    LET C == CompleteIndexes(ret.tools)
    IN /\ CallSpecsMatch
       /\ ProxiesBound
       /\ DOMAIN ret.available_functions = {ret.tools[i].name : i \in C}
       /\ \A k \in 1..Cardinality(C) :
            (\A l \in (k + 1)..Cardinality(C) :
                ret.tools[Nth(C, l)].name # ret.tools[Nth(C, k)].name)
              => ret.available_functions[ret.tools[Nth(C, k)].name] = ret.first_id + k - 1
       /\ (\A i, j \in C : i # j => ret.tools[i].name # ret.tools[j].name)
            => Cardinality(DOMAIN ret.available_functions) = Len(ret.formatted_tools)

\* A call on two complete descriptors of one name: two CallSpecs, two proxies
\* made, one of them bound.
C7_Witness ==
  /\ FormatCalled
  /\ Len(ret.tools) = 2
  /\ Len(proxies) = ret.first_id + 1
  /\ Cardinality(CompleteIndexes(ret.tools)) = 2
  /\ Len(ret.formatted_tools) = 2
  /\ Cardinality(DOMAIN ret.available_functions) = 1

\* ------------------------------------------------------- follow-up: claims
HandleCalled == ret.op = "handle_tool_responses"

\* The records appended after the snapshot.
NewRecordIndexes == {i \in 1..Len(tool_calls_log) : i > ret.tools_called_count}

OnlyWhitespace(s) == \A i \in 1..Len(s) : s[i] = SPACE \/ s[i] = NL

\* "Tool <name>" occurs in s at some position.
EchoedIn(name, s) ==
  \E i \in 1..Len(s) :
     /\ i + Len(name) <= Len(s)
     /\ s[i] = TOOL
     /\ \A k \in 1..Len(name) : s[i + k] = name[k]

\* The policy of the follow-up decision, in the words of the claim.
FollowUpDue ==
  /\ Len(tool_calls_log) > ret.tools_called_count
  /\ \/ OnlyWhitespace(ret.response)
     \/ \A i \in NewRecordIndexes : EchoedIn(tool_calls_log[i].tool_name, ret.response)

C6_CallAndResult ==
  HandleCalled =>
    /\ caller_messages = ret.messages
    /\ IF FollowUpDue
       THEN /\ Len(ret.llm_calls) = 1
            /\ ret.llm_calls[1].tools = None
            /\ ret.llm_calls[1].available_functions = None
            /\ Len(ret.llm_calls[1].messages) = Len(ret.messages) + 2
            /\ SubSeq(ret.llm_calls[1].messages, 1, Len(ret.messages)) = ret.messages
            /\ ret.llm_calls[1].messages[Len(ret.messages) + 1]
                 = [role |-> "assistant", content |-> ret.response]
            /\ ret.llm_calls[1].messages[Len(ret.messages) + 2]
                 = [role |-> "user",
                    content |-> IF ret.follow_up_prompt \in {NoneStr, <<>>}
                                THEN DefaultFollowUpPrompt
                                ELSE ret.follow_up_prompt]
            /\ ~ret.raised => ret.result = ret.response \o <<NL, NL>> \o ret.llm_reply
       ELSE /\ ret.llm_calls = <<>>
            /\ ~ret.raised
            /\ ret.result = ret.response

\* A step that sets ret is a call of handle_tool_responses here; it leaves
\* the log and the caller's list as they were.
C6_Frame ==
  (ret' # ret /\ ret'.op = "handle_tool_responses")
    => (tool_calls_log' = tool_calls_log /\ caller_messages' = caller_messages)

\* C6: a due follow-up is one model call without tools on
\* messages ++ [assistant: response, user: follow-up prompt or the default],
\* returning response + "\n\n" + reply; when none is due the model is not
\* called and the response is returned as it is; the caller's list and the
\* log are as they were.
C6_FollowUpCallAndFrame == []C6_CallAndResult /\ [][C6_Frame]_vars

\* A follow-up made with a custom prompt on a non-empty caller list.
C6_Witness ==
  /\ HandleCalled
  /\ ret.messages # <<>>
  /\ ret.follow_up_prompt = <<"F">>
  /\ Len(ret.llm_calls) = 1
  /\ ~ret.raised
  /\ ret.result = ret.response \o <<NL, NL, "x">>

\* ----------------------------------------------------------- proxies: claims
EventsOf(c) == {k \in 1..Len(emitted) : emitted[k].call = c}

\* The record of call c sits in the log of its module at the place it took.
RecordLogged(c) ==
  LET log == LogOf(ModuleOf(c))
  IN /\ calls[c].index \in 1..Len(log)
     /\ log[calls[c].index].tool_name = NameOf(c)
     /\ log[calls[c].index].args = calls[c].args
     /\ log[calls[c].index].timestamp = calls[c].timestamp

\* The one event of call c carries the data of its record.
EventMatchesRecord(c) ==
  LET log == LogOf(ModuleOf(c))
  IN \A k \in EventsOf(c) :
       /\ emitted[k].tool_name = log[calls[c].index].tool_name
       /\ emitted[k].args = log[calls[c].index].args
       /\ emitted[k].timestamp = log[calls[c].index].timestamp

\* C8: an invocation appends its record, then emits one event with the
\* record's tool name, args and timestamp, then returns the acknowledgement;
\* no invocation has more than one event, and none has an event before its
\* record is in the log.
C8_AppendThenEmitThenReturn ==
  /\ \A k \in 1..Len(emitted) : emitted[k].call \in 1..Len(calls)
  /\ \A c \in 1..Len(calls) :
       /\ Cardinality(EventsOf(c)) <= 1
       /\ EventsOf(c) # {} => (RecordLogged(c) /\ EventMatchesRecord(c))
       /\ calls[c].pc = "created" => (calls[c].index = 0 /\ EventsOf(c) = {})
       /\ calls[c].pc \in {"logged", "raised"} => (RecordLogged(c) /\ EventsOf(c) = {})
       /\ calls[c].pc = "emitted" => Cardinality(EventsOf(c)) = 1
       /\ calls[c].pc = "returned"
            => /\ Cardinality(EventsOf(c)) = 1
               /\ calls[c].ret = <<NL, NL, TOOL>> \o NameOf(c)
                                   \o <<CALLED, calls[c].args, NL, NL>>
       /\ calls[c].pc # "returned" => calls[c].ret = <<>>

\* Two invocations have returned, one through each module's proxy.
C8_Witness ==
  /\ Len(calls) = 2
  /\ calls[1].pc = "returned" /\ calls[2].pc = "returned"
  /\ ModuleOf(1) # ModuleOf(2)
  /\ Len(emitted) = 2

\* C9: a proxy invocation never ends in an exception, whatever the event bus
\* does: it returns the acknowledgement.
C9_ProxyNeverRaises ==
  \A c \in 1..Len(calls) : calls[c].pc # "raised"

\* The invocations of copilotkit_integration proxies that have appended.
LoggedCalls ==
  {c \in 1..Len(calls) :
     ModuleOf(c) = "copilotkit_integration" /\ calls[c].pc # "created"}

\* One record per invocation that has appended, each the record of its call.
OneRecordPerLoggedCall ==
  /\ Len(tool_calls_log) = Cardinality(LoggedCalls)
  /\ \A c \in LoggedCalls : RecordLogged(c)
  /\ \A c, d \in LoggedCalls : c # d => calls[c].index # calls[d].index

\* C10 as stated: one record per invocation, in the order the invocations were
\* made, with timestamps non-decreasing along the log, under any interleaving.
C10_Orig_InvocationOrderAndTimestamps ==
  /\ OneRecordPerLoggedCall
  /\ \A c, d \in LoggedCalls : c < d => calls[c].index < calls[d].index
  /\ \A i, j \in 1..Len(tool_calls_log) :
       i < j => tool_calls_log[i].timestamp <= tool_calls_log[j].timestamp

\* A record is never older than a record that was in the log when its
\* invocation began.
TimestampsFollowSeenLog ==
  \A c \in LoggedCalls :
     \A j \in 1..calls[c].seen :
        tool_calls_log[j].timestamp <= tool_calls_log[calls[c].index].timestamp

\* The log only grows at its end.
LogExtends ==
  /\ Len(tool_calls_log') >= Len(tool_calls_log)
  /\ SubSeq(tool_calls_log', 1, Len(tool_calls_log)) = tool_calls_log

\* C10 (amended): the log holds exactly one record per invocation that has
\* run its append, each with the data of its invocation, in the order of the
\* appends; every step leaves the old log as a prefix of the new one; and a
\* record's timestamp is at least that of every record already in the log
\* when its invocation began.
C10_AppendOnlyLog ==
  [](OneRecordPerLoggedCall /\ TimestampsFollowSeenLog) /\ [][LogExtends]_vars

\* Two overlapping invocations logged against the order of their timestamps.
C10_Witness ==
  /\ Len(tool_calls_log) = 2
  /\ tool_calls_log[1].timestamp > tool_calls_log[2].timestamp
  /\ tool_calls_log[1].tool_name = tool_calls_log[2].tool_name
  /\ Cardinality(LoggedCalls) = 2

\* ------------------------------------------------------------ chat: claims
\* The most recent return of chat, while its flow is still in that turn.
ChatEnded == ret.op = "chat" /\ flows[ret.flow].turn = ret.turn

\* C11: when the model call of a turn of AgenticChatFlow.chat raises, chat
\* returns (the turn ends, ready for the next kickoff) the text holding
\* "An error occurred: " followed by the exception's message, and the
\* session's message list is what it was when the model was called.
C11_FailedCallBecomesErrorText ==
  (ChatEnded /\ ret.raised) =>
    /\ flows[ret.flow].pc = "done"
    /\ flows[ret.flow].result = ret.result
    /\ Occurs(<<ERROR_OCCURRED>> \o ret.response, ret.result)
    /\ flows[ret.flow].messages = ret.messages_before

\* A turn whose model call raised after the model had invoked a tool, on a
\* session that holds a message.
C11_Witness ==
  /\ ChatEnded /\ ret.raised
  /\ ret.messages_before # <<>>
  /\ CallsOf(flows[ret.flow]) # {}


\* A {role, content} dict whose role is one of the three the session knows.
IsSessionMessage(m) == DOMAIN m = {"role", "content"} /\ m.role \in StateRoles

\* C12: a turn of AgenticChatFlow.chat whose model call returned has appended
\* exactly one entry to the session's message list, the Message of role
\* assistant holding the reply, and every element of every session's message
\* list is a {role, content} Message of role system, user or assistant.
C12_AssistantMessageAppended ==
  /\ (ChatEnded /\ ~ret.raised) =>
       flows[ret.flow].messages =
         Append(ret.messages_before, Message("assistant", ret.response))
  /\ \A f \in 1..Len(flows) : \A i \in 1..Len(flows[f].messages) :
       IsSessionMessage(flows[f].messages[i])


\* The invocations, of proxies of either module, that have appended their record.
RecordedInvocations == {c \in 1..Len(calls) : calls[c].pc # "created"}

InRegistry(c) ==
  \E i \in 1..Len(tool_calls_log) :
    tool_calls_log[i] = ToolCallRecord(NameOf(c), calls[c].args, calls[c].timestamp)

\* A call of get_tools_summary reports as many calls as were recorded.
SummaryCountsInvocations ==
  (ret' # ret /\ ret'.op = "get_tools_summary") =>
    ret'.total = Cardinality(RecordedInvocations)

\* C13: copilotkit_integration.tool_calls_log, the registry get_tools_summary
\* and handle_tool_responses read, holds the record of every invocation of
\* every proxy, those AgenticChatFlow.chat makes with main.create_tool_proxy
\* included, and nothing else; the total of a summary is the number of
\* invocations made.
C13_OneRegistry ==
  /\ [](/\ \A c \in RecordedInvocations : InRegistry(c)
        /\ Len(tool_calls_log) = Cardinality(RecordedInvocations))
  /\ [][SummaryCountsInvocations]_vars


\* ----------------------------------------------------------- turns: claims
\* The invocations of the proxies of the turn that has just ended which
\* appended their record.
OwnRecordedCalls == {c \in CallsOf(flows[ret.flow]) : calls[c].pc # "created"}

\* C14: the follow-up decision of a turn rests on that turn's tool calls only.
\* When the turn whose decision was just taken had none of its own proxies
\* recorded, no follow-up call was made for it; and the records the decision
\* inspected are the records of the turn's own invocations, one each.
C14_DecisionSeesOwnCallsOnly ==
  (ret.op = "turn" /\ flows[ret.flow].turn = ret.turn) =>
    /\ OwnRecordedCalls = {} => ret.llm_calls = <<>>
    /\ Len(ret.inspected) = Cardinality(OwnRecordedCalls)
    /\ \A c \in OwnRecordedCalls :
         /\ calls[c].index > ret.tools_called_count
         /\ ret.inspected[calls[c].index - ret.tools_called_count]
              = ToolCallRecord(NameOf(c), calls[c].args, calls[c].timestamp)


\* ------------------------------------------------------ tool cache: claims
\* The tool definitions a kickoff input supplies.
InputTools(input) ==
  IF input.kind = "dict" /\ input.has_tools THEN input.tools ELSE <<>>

\* C15: whenever pre_chat puts tools on state.copilotkit.actions of a flow, they
\* are the tool definitions of the input of the kickoff that began that turn
\* on that flow, never those of an earlier kickoff or of another flow.
C15_InstalledToolsAreTurnTools ==
  [][\A f \in 1..Len(flows) :
       flows'[f].actions # flows[f].actions =>
         flows'[f].actions = InputTools(flows'[f].kickoff_input)]_vars


\* ----------------------------------------------------- entry point: claims
\* C16: entrypoint.kickoff returns 0 exactly when the kickoff of the flow it
\* ran did not raise, a turn whose model call failed and was answered by the
\* error text included, and 1 exactly when it raised; when it returns 0 it has
\* printed the tool-call summary of that flow.
C16_ExitCodeFollowsFlowRun ==
  entry.pc = "done" =>
    /\ entry.code = (IF entry.flow_raised THEN 1 ELSE 0)
    /\ entry.code = 0 => entry.summary_printed


====
